---- MODULE Spec2Model ----
(***************************************************************************)
(* Model of the search UI's query pipeline: handleSubmit / handleNameClick *)
(* (SearchInterface.tsx) calling the asynchronous handleSearch helper      *)
(* (nine-parameter version, src/unnamed/part_000).                         *)
(*                                                                         *)
(* Every invocation of handleSearch is one "query" q in 1..MaxQueries; its *)
(* AbortController is identified with q.  One action is one JavaScript     *)
(* task: the synchronous code from one suspension point (await) to the     *)
(* next, together with the promise reactions (microtasks) it triggers.     *)
(* The event handlers carry no guard on `loading` (the disabled attribute  *)
(* lives only in the rendered JSX), so they may be invoked at any time.    *)
(*                                                                         *)
(* Text is a sequence of lexical units (strings).  A unit is a bracket, a  *)
(* comma, a blank, a code-fence marker, prose, or the text of one JSON     *)
(* value; parsed values are records, so parsing is not the identity.       *)
(***************************************************************************)
EXTENDS Naturals, Sequences, FiniteSets

\* Number of non-blank handleSearch invocations explored.
MaxQueries == 2

Q == 1..MaxQueries

NULL == "<null>"

VARIABLES
    query,          \* useState("")  : the input box
    loading,        \* useState(false)
    error,          \* useState<string|null>(null)
    summary,        \* useState("")  : displayed accumulated text
    results,        \* useState("")  : raw hits JSON
    parsedResults,  \* useState<SearchResult[]>([])
    parseError,     \* useState<string|null>(null)
    abortRef,       \* useRef<AbortController|null>(null): 0 is null
    aborted,        \* controllers whose signal is aborted
    pc,             \* per query: where handleSearch is suspended
    data,           \* per query: local `data` (parsed search response)
    stream,         \* per query: the chunks the model's stream will deliver
    pos,            \* per query: chunks consumed so far
    raw,            \* per query: local `raw`
    exit,           \* per query: the path on which handleSearch returned
    calls,          \* per query: requests issued (fetch, generateContentStream,
                    \* JSON.parse) and runs of the finally block (fin)
    summaryBy,      \* history: query whose code last wrote summary (0: none)
    parsedBy,       \* history: query whose result list parsedResults holds (0: none)
    errorBy,        \* history: query that last set a non-null error (0: none)
    overlapped      \* history: a query was started while another was in flight

vars == <<query, loading, error, summary, results, parsedResults, parseError,
          abortRef, aborted, pc, data, stream, pos, raw, exit, calls,
          summaryBy, parsedBy, errorBy, overlapped>>

-----------------------------------------------------------------------------
(* Text and JSON *)

WS == " "
FenceJson == "<fence>json"
Fence == "<fence>"
ObjS == "{summary:a}"
ObjT == "{summary:a<fence>b}"
ObjU == "{summary:ab}"
ObjN == "{id:p1}"
Num == "1"
Null == "null"
Prose == "Here you go"

\* String.prototype.trim: drop leading and trailing blanks.
Trim(s) ==
    LET keep == {i \in 1..Len(s) : s[i] # WS}
    IN  IF keep = {} THEN <<>>
        ELSE LET lo == CHOOSE i \in keep : \A j \in keep : i <= j
                 hi == CHOOSE i \in keep : \A j \in keep : j <= i
             IN  SubSeq(s, lo, hi)

IsFenceUnit(u) == u \in {FenceJson, Fence}

\* What the global replace does inside one unit: a fence marker inside a
\* string value is removed like any other.
StripInside(u) == IF u = ObjT THEN ObjU ELSE u

\* raw.replace(/<fence>json|<fence>/g, ""), <fence> being three backticks
ReplaceFences(text) ==
    LET kept == SelectSeq(text, LAMBDA u : ~IsFenceUnit(u))
    IN  [i \in 1..Len(kept) |-> StripInside(kept[i])]

\* cleaned.startsWith("[") && cleaned.endsWith("]")
Probe(cleaned) ==
    /\ Len(cleaned) > 0
    /\ cleaned[1] = "["
    /\ cleaned[Len(cleaned)] = "]"

IsValueUnit(u) == u \in {ObjS, ObjT, ObjU, ObjN, Num, Null}

\* The value JSON.parse builds from the text of one JSON value.
ValueOf(u) ==
    CASE u = ObjS -> [kind |-> "object", hasSummary |-> TRUE,  summary |-> "a"]
      [] u = ObjT -> [kind |-> "object", hasSummary |-> TRUE,  summary |-> "a<fence>b"]
      [] u = ObjU -> [kind |-> "object", hasSummary |-> TRUE,  summary |-> "ab"]
      [] u = ObjN -> [kind |-> "object", hasSummary |-> FALSE, summary |-> ""]
      [] u = Num  -> [kind |-> "number", hasSummary |-> FALSE, summary |-> ""]
      [] OTHER    -> [kind |-> "null",   hasSummary |-> FALSE, summary |-> ""]

\* JSON.parse on a text of units: a flat array  [ v , v , ... ]  with blanks
\* allowed between tokens; anything else is a SyntaxError (ok = FALSE).
JSONParse(text) ==
    LET toks  == SelectSeq(text, LAMBDA u : u # WS)
        n     == Len(toks)
        inner == IF n >= 2 THEN SubSeq(toks, 2, n - 1) ELSE <<>>
        m     == Len(inner)
        wf    == /\ n >= 2
                 /\ toks[1] = "["
                 /\ toks[n] = "]"
                 /\ \/ m = 0
                    \/ /\ m % 2 = 1
                       /\ \A i \in 1..m :
                             IF i % 2 = 1 THEN IsValueUnit(inner[i])
                                          ELSE inner[i] = ","
    IN  IF wf
        THEN [ok |-> TRUE,
              value |-> [i \in 1..((m + 1) \div 2) |-> ValueOf(inner[2 * i - 1])]]
        ELSE [ok |-> FALSE, value |-> <<>>]

\* `const cleaned = raw.replace(...).trim()`, each step evaluated once.
Cleaned(rawText) == CHOOSE c \in {Trim(t) : t \in {ReplaceFences(rawText)}} : TRUE

\* The "Parse the final JSON response" block: what handleSearch returns
\* after the stream has ended.  defined = FALSE is `undefined`.
ParseFinal(rawText) ==
    LET Parse(cleaned) ==
            IF Probe(cleaned) /\ JSONParse(cleaned).ok
            THEN [defined |-> TRUE,  value |-> JSONParse(cleaned).value]
            ELSE [defined |-> FALSE, value |-> <<>>]
    IN  CHOOSE r \in {Parse(c) : c \in {Cleaned(rawText)}} : TRUE

\* JSON.parse is reached only when the probe passes.
ParseInvoked(rawText) == \E c \in {Cleaned(rawText)} : Probe(c)

\* `if (parsed)` in handleSubmit / handleNameClick: undefined is falsy, every
\* array (the empty one too) is truthy.
Truthy(r) == r.defined

-----------------------------------------------------------------------------
(* Inputs *)

QueryTexts == {<<>>, <<WS>>, <<"a">>}
Names == {<<"n">>}

FallbackMsg == "Something went wrong, check console for details."
NoDocs == <<"No documents found.">>

AbortErr == [name |-> "AbortError", message |-> "The user aborted a request."]
Errors == {[name |-> "TypeError", message |-> "Failed to fetch"],
           [name |-> "Error", message |-> ""]}

\* fetch settles: a response (ok or not, with its statusText) or a rejection.
FetchOutcomes ==
    {[kind |-> "response", ok |-> TRUE,  statusText |-> "OK"],
     [kind |-> "response", ok |-> FALSE, statusText |-> "Not Found"],
     [kind |-> "response", ok |-> FALSE, statusText |-> ""]}

\* Bodies of the search response as res.json() yields them.
NoData == [shape |-> "none", total |-> 0]
Datas == {[shape |-> "null", total |-> 0],
          [shape |-> "noTotal", total |-> 0],
          [shape |-> "total", total |-> 0],
          [shape |-> "total", total |-> 2]}

Chunk(units) == [text |-> units]

Streams ==
    { << Chunk(<<FenceJson, WS, "[", ObjS>>), Chunk(<<",", ObjN, "]", WS, Fence>>) >>,
      << Chunk(<<"[", ObjS, "]">>) >>,
      << Chunk(<<"[", ObjS, "]">>), Chunk(<<Prose>>) >>,
      << Chunk(<<"[", ObjT, "]">>) >>,
      << Chunk(<<"[", "]">>) >>,
      << Chunk(<<"[", Num, ",", Null, ",", ObjN, "]">>) >>,
      << Chunk(<<"[", ObjS>>) >>,
      << Chunk(<<"[", ObjS, ",", "]">>) >>,
      << >> }

-----------------------------------------------------------------------------
(* handleSearch, piece by piece *)

\* `typeof chunk.text === "function" ? chunk.text() : chunk`
ChunkText(chunk) == chunk.text

\* `!data?.total || data.total === 0`
IsZeroHit(d) == \/ d.shape # "total"
                \/ d.total = 0

\* JSON.stringify(data, null, 2)
Stringify(d) ==
    CASE d.shape = "null"    -> "null"
      [] d.shape = "noTotal" -> "{}"
      [] d.total = 0         -> "{total: 0}"
      [] OTHER               -> "{total: 2}"

\* `if (err.name === "AbortError") return;`
IsAbort(err) == err.name = "AbortError"

\* Variant of ErrMsg without the fallback text: setError(err.message).
ErrMsgNoFallback(err) == err.message

\* `err.message || "Something went wrong, check console for details."`
ErrMsg(err) == IF err.message = "" THEN FallbackMsg ELSE err.message

\* Variant of AbortPrevious that forgets to abort the previous controller.
AbortPreviousSkip(old, ab) == ab

\* `abortRef.current?.abort()`
AbortPrevious(old, ab) == IF old = 0 THEN ab ELSE ab \cup {old}

\* Variant of StartError that leaves the previous query's error in place.
StartErrorKeep == error

\* `setError(null)` at the start of handleSearch.
StartError == NULL

\* `finally { setLoading(false); }`: c is the query's calls record.
Finally(c) == [c EXCEPT !.fin = @ + 1]

\* A query suspended on a promise that its controller's signal rejects.
OnSignal(q) == q # 0 /\ pc[q] \in {"fetch", "json"}

Started == {q \in Q : pc[q] # "idle"}
NextId == Cardinality(Started) + 1

TypeOK ==
    /\ query \in QueryTexts \cup Names
    /\ loading \in BOOLEAN
    /\ abortRef \in 0..MaxQueries
    /\ aborted \subseteq Q
    /\ pc \in [Q -> {"idle", "fetch", "json", "gen", "stream", "done"}]
    /\ pos \in [Q -> 0..2]

Init ==
    /\ query = <<>>
    /\ loading = FALSE
    /\ error = NULL
    /\ summary = <<>>
    /\ results = ""
    /\ parsedResults = <<>>
    /\ parseError = NULL
    /\ abortRef = 0
    /\ aborted = {}
    /\ pc = [q \in Q |-> "idle"]
    /\ data = [q \in Q |-> NoData]
    /\ stream = [q \in Q |-> <<>>]
    /\ pos = [q \in Q |-> 0]
    /\ raw = [q \in Q |-> <<>>]
    /\ exit = [q \in Q |-> "none"]
    /\ calls = [q \in Q |-> [fetch |-> 0, gen |-> 0, parse |-> 0, fin |-> 0]]
    /\ summaryBy = 0
    /\ parsedBy = 0
    /\ errorBy = 0
    /\ overlapped = FALSE

-----------------------------------------------------------------------------
(* Actions *)

\* The locals of an invocation go out of scope when it returns.
DropLocals(q) ==
    /\ data' = [data EXCEPT ![q] = NoData]
    /\ stream' = [stream EXCEPT ![q] = <<>>]
    /\ pos' = [pos EXCEPT ![q] = 0]
    /\ raw' = [raw EXCEPT ![q] = <<>>]

\* Variant of CatchFinally that issues the search request again after a
\* failure instead of reporting it.
CatchFinallyRetry(q, err) ==
    /\ pc' = [pc EXCEPT ![q] = IF IsAbort(err) THEN "done" ELSE "fetch"]
    /\ exit' = [exit EXCEPT ![q] = IF IsAbort(err) THEN "aborted" ELSE @]
    /\ loading' = (IF IsAbort(err) THEN FALSE ELSE loading)
    /\ calls' = [calls EXCEPT ![q] = IF IsAbort(err) THEN Finally(@)
                                                     ELSE [@ EXCEPT !.fetch = @ + 1]]
    /\ DropLocals(q)
    /\ UNCHANGED <<query, error, errorBy, summary, results, parsedResults, parseError,
                   abortRef, aborted, summaryBy, parsedBy, overlapped>>

\* The catch / finally blocks of handleSearch for query q and error err,
\* followed by the caller's `if (parsed)` on the undefined result.
CatchFinally(q, err) ==
    /\ error' = IF IsAbort(err) THEN error ELSE ErrMsg(err)
    /\ errorBy' = IF IsAbort(err) THEN errorBy ELSE q
    /\ loading' = FALSE
    /\ pc' = [pc EXCEPT ![q] = "done"]
    /\ exit' = [exit EXCEPT ![q] = IF IsAbort(err) THEN "aborted" ELSE "caught"]
    /\ calls' = [calls EXCEPT ![q] = Finally(@)]
    /\ DropLocals(q)
    /\ UNCHANGED <<query, summary, results, parsedResults, parseError, abortRef,
                   aborted, summaryBy, parsedBy, overlapped>>

\* handleSearch from its entry to its first await.  Aborting the previous
\* controller rejects the fetch / body read that query is suspended on; its
\* catch (AbortError) and finally run as microtasks of the same task, after
\* the new query's setLoading(true).
HandleSearchCall(qt) ==
    IF Trim(qt) = <<>>
    THEN UNCHANGED <<loading, error, summary, results, abortRef, aborted, pc,
                     data, stream, pos, raw, exit, calls, summaryBy, errorBy,
                     overlapped>>
    ELSE /\ NextId <= MaxQueries
         /\ LET id  == NextId
                old == abortRef
                ab  == AbortPrevious(old, aborted)
                rejected == OnSignal(old) /\ old \in ab
            IN  /\ aborted' = ab
                /\ abortRef' = id
                /\ loading' = ~rejected
                /\ error' = IF rejected /\ ~IsAbort(AbortErr) THEN ErrMsg(AbortErr)
                                                            ELSE StartError
                /\ errorBy' = IF rejected /\ ~IsAbort(AbortErr) THEN old ELSE 0
                /\ summary' = <<>>
                /\ summaryBy' = id
                /\ pc' = [q \in Q |-> IF q = id THEN "fetch"
                                      ELSE IF q = old /\ rejected THEN "done"
                                      ELSE pc[q]]
                /\ exit' = [q \in Q |-> IF q = old /\ rejected THEN "aborted" ELSE exit[q]]
                /\ calls' = [q \in Q |->
                               IF q = id THEN [calls[q] EXCEPT !.fetch = @ + 1]
                               ELSE IF q = old /\ rejected THEN Finally(calls[q])
                               ELSE calls[q]]
                /\ overlapped' = (overlapped \/ \E q \in Q : pc[q] \notin {"idle", "done"})
                /\ UNCHANGED <<results, data, stream, pos, raw>>

\* onChange of the input box.
TypeQuery(t) ==
    /\ query' = t
    /\ UNCHANGED <<loading, error, summary, results, parsedResults, parseError,
                   abortRef, aborted, pc, data, stream, pos, raw, exit, calls,
                   summaryBy, parsedBy, errorBy, overlapped>>

\* handleSubmit up to its await.
HandleSubmit ==
    /\ parsedResults' = <<>>
    /\ parsedBy' = 0
    /\ parseError' = NULL
    /\ query' = query
    /\ HandleSearchCall(query)

\* handleNameClick up to its await.
HandleNameClick(name) ==
    /\ query' = name
    /\ parsedResults' = <<>>
    /\ parsedBy' = 0
    /\ parseError' = NULL
    /\ HandleSearchCall(name)

\* The fetch promise resolves with a response.
FetchSettles(q, o) ==
    /\ pc[q] = "fetch"
    /\ IF o.ok
       THEN /\ pc' = [pc EXCEPT ![q] = "json"]
            /\ UNCHANGED <<query, loading, error, summary, results, parsedResults,
                           parseError, abortRef, aborted, data, stream, pos, raw,
                           exit, calls, summaryBy, parsedBy, errorBy, overlapped>>
       ELSE CatchFinally(q, [name |-> "Error", message |-> o.statusText])

\* An awaited promise (fetch, res.json(), generateContentStream, the stream's
\* next chunk or chunk.text()) rejects with an error other than cancellation.
AwaitRejects(q, err) ==
    /\ pc[q] \in {"fetch", "json", "gen", "stream"}
    /\ CatchFinally(q, err)

\* Variant of JsonSettles whose zero-hit return bypasses the finally block.
JsonSettlesNoFinally(q, d) ==
    /\ pc[q] = "json"
    /\ IF IsZeroHit(d)
       THEN /\ summary' = NoDocs
            /\ summaryBy' = q
            /\ pc' = [pc EXCEPT ![q] = "done"]
            /\ exit' = [exit EXCEPT ![q] = "zero"]
            /\ UNCHANGED <<results, data, loading, calls>>
       ELSE /\ data' = [data EXCEPT ![q] = d]
            /\ results' = Stringify(d)
            /\ calls' = [calls EXCEPT ![q].gen = @ + 1]
            /\ pc' = [pc EXCEPT ![q] = "gen"]
            /\ UNCHANGED <<summary, summaryBy, loading, exit>>
    /\ UNCHANGED <<query, error, parsedResults, parseError, abortRef, aborted,
                   stream, pos, raw, parsedBy, errorBy, overlapped>>

\* res.json() resolves: the zero-hit short circuit, or setResults, the
\* prompt and the call of model.generateContentStream.
JsonSettles(q, d) ==
    /\ pc[q] = "json"
    /\ IF IsZeroHit(d)
       THEN /\ summary' = NoDocs
            /\ summaryBy' = q
            /\ loading' = FALSE
            /\ pc' = [pc EXCEPT ![q] = "done"]
            /\ exit' = [exit EXCEPT ![q] = "zero"]
            /\ calls' = [calls EXCEPT ![q] = Finally(@)]
            /\ UNCHANGED <<results, data>>
       ELSE /\ data' = [data EXCEPT ![q] = d]
            /\ results' = Stringify(d)
            /\ calls' = [calls EXCEPT ![q].gen = @ + 1]
            /\ pc' = [pc EXCEPT ![q] = "gen"]
            /\ UNCHANGED <<summary, summaryBy, loading, exit>>
    /\ UNCHANGED <<query, error, parsedResults, parseError, abortRef, aborted,
                   stream, pos, raw, parsedBy, errorBy, overlapped>>

\* generateContentStream resolves with a stream; `let raw = ""`.
GenResolves(q, s) ==
    /\ pc[q] = "gen"
    /\ stream' = [stream EXCEPT ![q] = s]
    /\ pos' = [pos EXCEPT ![q] = 0]
    /\ raw' = [raw EXCEPT ![q] = <<>>]
    /\ pc' = [pc EXCEPT ![q] = "stream"]
    /\ UNCHANGED <<query, loading, error, summary, results, parsedResults,
                   parseError, abortRef, aborted, data, exit, calls, summaryBy,
                   parsedBy, errorBy, overlapped>>

\* Variant of ChunkArrives that runs the final parse on every chunk and
\* reports its failure without waiting for the end of the stream.
ChunkArrivesNoSuppress(q) ==
    /\ pc[q] = "stream"
    /\ pos[q] < Len(stream[q])
    /\ LET r == raw[q] \o ChunkText(stream[q][pos[q] + 1])
       IN  /\ raw' = [raw EXCEPT ![q] = r]
           /\ summary' = r
           /\ parseError' = IF ParseFinal(r).defined THEN parseError ELSE "SyntaxError"
    /\ summaryBy' = q
    /\ pos' = [pos EXCEPT ![q] = @ + 1]
    /\ UNCHANGED <<query, loading, error, results, parsedResults,
                   abortRef, aborted, pc, data, stream, exit, calls, parsedBy,
                   errorBy, overlapped>>

\* Variant of ChunkArrives that assigns the chunk to raw instead of appending.
ChunkArrivesReplace(q) ==
    /\ pc[q] = "stream"
    /\ pos[q] < Len(stream[q])
    /\ LET r == ChunkText(stream[q][pos[q] + 1])
       IN  /\ raw' = [raw EXCEPT ![q] = r]
           /\ summary' = r
    /\ summaryBy' = q
    /\ pos' = [pos EXCEPT ![q] = @ + 1]
    /\ UNCHANGED <<query, loading, error, results, parsedResults, parseError,
                   abortRef, aborted, pc, data, stream, exit, calls, parsedBy,
                   errorBy, overlapped>>

\* One iteration of `for await (const chunk of stream)`.
ChunkArrives(q) ==
    /\ pc[q] = "stream"
    /\ pos[q] < Len(stream[q])
    /\ LET r == raw[q] \o ChunkText(stream[q][pos[q] + 1])
       IN  /\ raw' = [raw EXCEPT ![q] = r]
           /\ summary' = r
    /\ summaryBy' = q
    /\ pos' = [pos EXCEPT ![q] = @ + 1]
    /\ UNCHANGED <<query, loading, error, results, parsedResults, parseError,
                   abortRef, aborted, pc, data, stream, exit, calls, parsedBy,
                   errorBy, overlapped>>

\* The stream ends: the final parse, finally, and the caller's
\* `if (parsed) setParsedResults(parsed)`.
StreamEnds(q) ==
    /\ pc[q] = "stream"
    /\ pos[q] = Len(stream[q])
    /\ LET parsed == ParseFinal(raw[q])
       IN  /\ exit' = [exit EXCEPT ![q] = IF parsed.defined THEN "returned" ELSE "fellthrough"]
           /\ parsedResults' = IF Truthy(parsed) THEN parsed.value ELSE parsedResults
           /\ parsedBy' = IF Truthy(parsed) THEN q ELSE parsedBy
    /\ calls' = [calls EXCEPT ![q] =
                    Finally([@ EXCEPT !.parse = IF ParseInvoked(raw[q]) THEN @ + 1 ELSE @])]
    /\ loading' = FALSE
    /\ pc' = [pc EXCEPT ![q] = "done"]
    /\ DropLocals(q)
    /\ UNCHANGED <<query, error, summary, results, parseError, abortRef, aborted,
                   summaryBy, errorBy, overlapped>>

Next ==
    \/ \E t \in QueryTexts : TypeQuery(t)
    \/ HandleSubmit
    \/ \E name \in Names : HandleNameClick(name)
    \/ \E q \in Q, o \in FetchOutcomes : FetchSettles(q, o)
    \/ \E q \in Q, err \in Errors : AwaitRejects(q, err)
    \/ \E q \in Q, d \in Datas : JsonSettles(q, d)
    \/ \E q \in Q, s \in Streams : GenResolves(q, s)
    \/ \E q \in Q : ChunkArrives(q)
    \/ \E q \in Q : StreamEnds(q)

Spec == Init /\ [][Next]_vars

\* A pending promise of some query settles: the search request or the reading
\* of its body completes or fails, the model call answers, the stream
\* delivers a chunk or ends.
Settle ==
    \E q \in Q :
       \/ \E o \in FetchOutcomes : FetchSettles(q, o)
       \/ \E d \in Datas : JsonSettles(q, d)
       \/ \E s \in Streams : GenResolves(q, s)
       \/ ChunkArrives(q)
       \/ StreamEnds(q)

\* No promise stays pending for ever.
Fairness == WF_vars(Settle)

FairSpec == Spec /\ Fairness

-----------------------------------------------------------------------------
(* Properties *)

InFlight(q) == pc[q] \in {"fetch", "json", "gen", "stream"}

\* The step in which q's stream ends normally (the loop exits, no throw).
NormalEnd(q) == pc[q] = "stream" /\ exit'[q] \in {"returned", "fellthrough"}

\* Reference reading of a text: drop only leading and trailing fence markers
\* and blanks, leaving the inside of the text as it is.
IsWrapUnit(u) == u \in {WS, Fence, FenceJson}
Unwrap(text) ==
    LET keep == {i \in 1..Len(text) : ~IsWrapUnit(text[i])}
    IN  IF keep = {} THEN <<>>
        ELSE LET lo == CHOOSE i \in keep : \A j \in keep : i <= j
                 hi == CHOOSE i \in keep : \A j \in keep : j <= i
             IN  SubSeq(text, lo, hi)

\* A well-formed JSON array, optionally fenced, with a summary-bearing object.
WellFormedWithSummary(text) ==
    LET u == Unwrap(text)
    IN  /\ JSONParse(u).ok
        /\ \E i \in 1..Len(JSONParse(u).value) : JSONParse(u).value[i].hasSummary

\* C1: no result list of a cancelled query is written to parsedResults after
\* its cancellation: parsedResults never holds the list of a query whose
\* controller has been aborted (every submission that aborts a controller
\* also clears parsedResults, so such a list could only have come later).
C1_NoPublishAfterCancel == parsedBy \notin aborted

\* C2: once a newer query has been submitted, no chunk of a superseded
\* query updates summary: the last writer of summary is never a query whose
\* controller has been aborted.
C2_SupersededChunksIgnored == summaryBy \notin aborted

\* C3: a query whose stream ends normally with text that fails the probe or
\* the parse publishes a terminal parse error (parseError non-null).
C3_TerminalParseError ==
    [][\A q \in Q : (NormalEnd(q) /\ ~ParseFinal(raw[q]).defined)
                        => parseError' # NULL]_vars

\* C4: a stream that ends normally with a well-formed (optionally fenced)
\* JSON array holding a summary-bearing object publishes exactly the array
\* obtained by parsing the unfenced text.
C4_PublishesParsedArray ==
    [][\A q \in Q : (NormalEnd(q) /\ WellFormedWithSummary(raw[q]))
                        => parsedResults' = JSONParse(Unwrap(raw[q])).value]_vars

\* C5: while q's stream is active, a step of q (a chunk, or a failure of the
\* stream) publishes no parse error, lets no exception escape handleSearch,
\* and changes parsedResults only if the accumulated text is a complete,
\* valid, non-empty JSON array.
C5_ActiveStreamIsQuiet ==
    [][\A q \in Q :
          (pc[q] = "stream" /\ (pos'[q] = pos[q] + 1 \/ exit'[q] = "caught"))
              => /\ parseError' = parseError
                 /\ exit'[q] \in {"none", "caught"}
                 /\ (parsedResults' # parsedResults
                        => /\ pc'[q] = "stream"
                           /\ ParseFinal(raw'[q]).defined
                           /\ ParseFinal(raw'[q]).value # <<>>)]_vars

\* C5 witness: a stream that has delivered a proper prefix which does not
\* parse, shown as summary, with nothing published and no parse error.
C5_Witness ==
    \E q \in Q : /\ pc[q] = "stream"
                 /\ pos[q] = 1
                 /\ Len(stream[q]) = 2
                 /\ ~ParseFinal(raw[q]).defined
                 /\ summary = raw[q]
                 /\ parsedResults = <<>>
                 /\ parseError = NULL

\* C6: a zero-hit response ends the query with summary = "No documents
\* found.", error null and loading false, without the streaming call or the
\* JSON parse having been invoked for it.
C6_ZeroHit ==
    [][\A q \in Q : (pc[q] = "json" /\ exit'[q] = "zero")
                        => /\ summary' = NoDocs
                           /\ error' = NULL
                           /\ loading' = FALSE
                           /\ calls'[q].gen = 0
                           /\ calls'[q].parse = 0]_vars

\* C7: when the search request of q fails other than by cancellation (a
\* non-ok response, a rejected fetch or a rejected body read), q
\* sets error to a message, never calls the model, publishes no result list
\* and ends with loading false.
C7_SearchFailure ==
    [][\A q \in Q : (/\ pc[q] \in {"fetch", "json"}
                     /\ pc'[q] = "done"
                     /\ exit'[q] # "zero"
                     /\ q \notin aborted')
                        => /\ error' \notin {NULL, ""}
                           /\ errorBy' = q
                           /\ calls'[q].gen = 0
                           /\ parsedResults' = parsedResults
                           /\ parsedBy' # q
                           /\ loading' = FALSE]_vars

\* C7 witness: a query ended by a failed search request, its error shown.
C7_Witness ==
    \E q \in Q : /\ exit[q] = "caught"
                 /\ calls[q].gen = 0
                 /\ errorBy = q
                 /\ error = FallbackMsg
                 /\ ~loading

\* C8: while the displayed text belongs to a query whose stream has not
\* finished, parsedResults holds no record of an earlier query.
C8_NoOldResultsUnderNewStream ==
    \A q \in Q : (summaryBy = q /\ pc[q] = "stream" /\ pos[q] >= 1)
                    => ~(parsedBy # 0 /\ parsedBy < q /\ parsedResults # <<>>)

\* C9: every controller handleSearch created is aborted except the one in
\* abortRef.current, which is not; so at most one controller is un-aborted
\* and at most one query that has not been cancelled is in flight.
C9_SingleLiveController ==
    /\ Started \ aborted = (IF abortRef = 0 THEN {} ELSE {abortRef})
    /\ Cardinality(Started \ aborted) <= 1
    /\ Cardinality({q \in Q : InFlight(q) /\ q \notin aborted}) <= 1

\* C9 witness: a cancelled query still running beside the query that
\* replaced it.
C9_Witness ==
    \E q1, q2 \in Q : /\ q1 \in aborted
                      /\ pc[q1] = "stream"
                      /\ abortRef = q2
                      /\ pc[q2] = "stream"

\* C10: a cancelled query never sets the error message: the query that last
\* set error is never one whose controller has been aborted (a submission
\* that aborts a controller also resets error).
C10_CancelledIsSilent == errorBy \notin aborted

\* Query q returns in this step (on any path).
Ends(q) == pc[q] \notin {"idle", "done"} /\ pc'[q] = "done"

\* Query q is the first one, or the query before it ended in a network or
\* stream error (caught) or with text the final parse rejected.
AfterFailure(q) == q = 1 \/ exit[q - 1] \in {"caught", "fellthrough"}

\* The user-visible state a query leaves behind, as a function of its own
\* path and accumulated text only.
EndView(q) ==
    /\ loading' = FALSE
    /\ parseError' = NULL
    /\ summary' = IF exit'[q] = "zero" THEN NoDocs ELSE raw[q]
    /\ error' # NULL <=> exit'[q] = "caught"
    /\ exit'[q] = "caught" => errorBy' = q
    /\ parsedResults' = IF exit'[q] = "returned" THEN ParseFinal(raw[q]).value ELSE <<>>

\* C11: when queries run one after another, a non-blank query that follows
\* a failed one (network error, stream error or parse failure) starts with
\* error null, parseError null, summary empty and parsedResults empty, and the
\* visible state it ends in is determined by its own path alone, so it is the
\* state the same query reaches from the initial state.
C11_ErrorsAreLocal ==
    [][\A q \in Q :
          (~overlapped' /\ AfterFailure(q)) =>
             /\ (pc[q] = "idle" /\ pc'[q] = "fetch") =>
                    /\ error' = NULL
                    /\ parseError' = NULL
                    /\ summary' = <<>>
                    /\ parsedResults' = <<>>
                    /\ loading' = TRUE
             /\ Ends(q) => EndView(q)]_vars

\* The second query ran after the first had failed and ended on the zero-hit
\* path with the first one's error gone.
C11_Witness ==
    /\ ~overlapped
    /\ exit[1] = "caught"
    /\ exit[2] = "zero"
    /\ error = NULL
    /\ summary = NoDocs

\* The parsed array has an element that is a non-null object with a summary.
HasSummaryElement(value) == \E i \in 1..Len(value) : value[i].hasSummary

\* C12: when a stream has ended and its text has parsed, a parsed value that
\* is an empty array or an array with no non-null object carrying a summary
\* leaves parsedResults as it was and is not published.
C12_PublishOnlySummaryBearing ==
    [][\A q \in Q :
          (/\ NormalEnd(q)
           /\ ParseFinal(raw[q]).defined
           /\ ~HasSummaryElement(ParseFinal(raw[q]).value))
          => /\ parsedResults' = parsedResults
             /\ parsedBy' = parsedBy]_vars

\* The text holds no object with a summary field.
NoSummaryObject(text) == \A i \in 1..Len(text) : text[i] \notin {ObjS, ObjT, ObjU}

\* The state behind the "No relevant information found" card.
NoResultsState == /\ loading = FALSE
                  /\ parsedResults = <<>>
                  /\ parseError = NULL
                  /\ error = NULL

\* The state behind the "Failed to parse response" card.
ParseErrorState == parseError # NULL

\* C13: a stream that completes normally with a text holding no
\* summary-bearing object leaves the no-results state (loading false,
\* parsedResults empty, parseError null, error null); a completed non-empty
\* text that does not parse leaves the parse-error state instead; the two
\* states never hold together.
C13_NoResultsVersusParseError ==
    [][\A q \in Q :
          NormalEnd(q) =>
             /\ NoSummaryObject(raw[q]) => NoResultsState'
             /\ (raw[q] # <<>> /\ ~ParseFinal(raw[q]).defined)
                   => (ParseErrorState' /\ ~NoResultsState')
             /\ ~(NoResultsState' /\ ParseErrorState')]_vars

\* c1 + c2 + ... + cn for the first n chunks of a stream.
RECURSIVE Accumulated(_, _)
Accumulated(chunks, n) ==
    IF n = 0 THEN <<>> ELSE Accumulated(chunks, n - 1) \o ChunkText(chunks[n])

\* C14: for a query running alone, the accumulator starts empty when the
\* stream opens, and summary changes during the stream only as a chunk is
\* consumed, one chunk at a time in arrival order, to the concatenation of all
\* chunks received so far: c1, c1+c2, ..., c1+...+cn.
C14_SummaryIsRunningConcatenation ==
    [][\A q \in Q :
          ~overlapped' =>
             /\ (pc[q] = "gen" /\ pc'[q] = "stream") =>
                    /\ raw'[q] = <<>>
                    /\ pos'[q] = 0
                    /\ summary' = <<>>
             /\ (/\ pc[q] = "stream"
                 /\ pc'[q] = "stream"
                 /\ (summary' # summary \/ pos'[q] # pos[q] \/ raw'[q] # raw[q])) =>
                    /\ pos'[q] = pos[q] + 1
                    /\ raw'[q] = Accumulated(stream[q], pos'[q])
                    /\ summary' = raw'[q]
                    /\ summaryBy' = q]_vars

\* A second chunk has been appended to a non-empty first one.
C14_Witness ==
    \E q \in Q : /\ ~overlapped
                  /\ pc[q] = "stream"
                  /\ pos[q] = 2
                  /\ summary = ChunkText(stream[q][1]) \o ChunkText(stream[q][2])
                  /\ ChunkText(stream[q][1]) # <<>>
                  /\ ChunkText(stream[q][2]) # <<>>

\* C15: no retries.  A non-blank invocation issues exactly one search request
\* and at most one streaming generation call, the latter only once the search
\* has answered, and an invocation that has returned (on a failure or
\* otherwise) is never resumed to issue another request.
C15_NoRetries ==
    \A q \in Q :
       /\ calls[q].fetch = (IF pc[q] = "idle" THEN 0 ELSE 1)
       /\ calls[q].gen <= 1
       /\ calls[q].gen = 1 => pc[q] \in {"gen", "stream", "done"}
       /\ pc[q] \in {"gen", "stream"} => calls[q].gen = 1
       /\ exit[q] # "none" <=> pc[q] = "done"

\* A query that failed after its streaming call was issued.
C15_Witness ==
    \E q \in Q : /\ exit[q] = "caught"
                  /\ calls[q].fetch = 1
                  /\ calls[q].gen = 1

\* C16: loading is true in every state in which the most recently submitted
\* non-blank query (the owner of the controller in abortRef) has not yet
\* returned; the return of an older, superseded query does not turn it off.
C16_LoadingWhileLatestRuns ==
    (abortRef # 0 /\ InFlight(abortRef)) => loading = TRUE

\* C17: provided every awaited promise settles, every non-blank invocation
\* eventually returns, and on its way out, whatever the path (success, zero
\* hits, failure, cancellation), it runs the finally block exactly once,
\* which sets loading to false.
C17_TerminatesAndUnloadsOnce ==
    /\ [](\A q \in Q : calls[q].fin = (IF pc[q] = "done" THEN 1 ELSE 0))
    /\ [][\A q \in Q : Ends(q) => loading' = FALSE]_vars
    /\ \A q \in Q : (pc[q] # "idle") ~> (pc[q] = "done")

\* Two invocations have returned, one cancelled and one after a full stream,
\* each having run its finally block once.
C17_Witness ==
    \E q1, q2 \in Q : /\ exit[q1] = "aborted"
                      /\ exit[q2] = "returned"
                      /\ calls[q1].fin = 1
                      /\ calls[q2].fin = 1
                      /\ loading = FALSE

\* A submission of the blank text in the input box: the only steps that
\* leave the blank query, every invocation's position and every stream's
\* cursor as they are.
BlankSubmitStep == /\ Trim(query) = <<>>
                   /\ UNCHANGED <<query, pc, pos>>

\* C18: submitting a blank query is a no-op: it neither aborts the
\* in-flight request nor replaces the controller in abortRef, issues no
\* request, and leaves loading, error, summary, the raw hits, parsedResults
\* and parseError unchanged.
C18_BlankSubmitIsNoOp ==
    [][BlankSubmitStep =>
          UNCHANGED <<abortRef, aborted, calls, loading, error, summary, results,
                      parsedResults, parseError>>]_vars

=============================================================================
